---------------------------- MODULE Spec2Model ----------------------------
(***************************************************************************)
(* Availability engine of calendarbot-render (src/calendar_utils.py):      *)
(* fetch_eventos normalises the provider's raw events, disponibilidad      *)
(* computes the free slots per date and room from the normalised events,   *)
(* with _gaps as the per room/day sweep.                                   *)
(*                                                                         *)
(* Representation.                                                         *)
(*  - A Python str is a sequence of one-character strings, so that         *)
(*    lower(), strip(), split(), the `in` substring test and the           *)
(*    lexicographic < are computed, not assumed.                           *)
(*  - A datetime is a record [w, tz]: w is the wall-clock reading in       *)
(*    seconds since 00:00 of day 0, tz names the tzinfo attached to it.    *)
(*    Aware datetimes are compared and subtracted on the UTC scale         *)
(*    (w - utcoffset), they are formatted and shifted on the wall clock.   *)
(*  - A date string "%Y-%m-%d" is its day number; a "%Y-%m-%dT%H:%M"       *)
(*    string is the triple <<day, hour, minute>> (fixed width and zero     *)
(*    padded, so the order of the triples is the order of the strings).    *)
(*  - None for a str-valued Optional is the value None below; an           *)
(*    Optional[int] is <<>> (None) or <<n>>.                               *)
(***************************************************************************)
EXTENDS Integers, Sequences, FiniteSets, TLC

---------------------------------------------------------------------------
(* Python str helpers *)

\* The characters that occur in the model's strings, in code point order.
Alphabet ==
    << " ", ",", "0", "1", "2", "3", "4", "5", "6", "7", "8", "9", ":",
       "F", "P", "S",
       "a", "b", "c", "d", "e", "f", "g", "i", "j", "l", "m", "n", "o",
       "p", "r", "s", "t", "u", "x", "z" >>

\* ord(c), up to an order-preserving renumbering.
Ord(c) == CHOOSE i \in 1..Len(Alphabet) : Alphabet[i] = c

Digits == <<"0", "1", "2", "3", "4", "5", "6", "7", "8", "9">>

IsDigit(c) == \E i \in 1..10 : Digits[i] = c

DigitVal(c) == (CHOOSE i \in 1..10 : Digits[i] = c) - 1

\* str.lower() on one character.
LowerChar(c) ==
    CASE c = "F" -> "f"
      [] c = "P" -> "p"
      [] c = "S" -> "s"
      [] OTHER   -> c

\* str.lower()
Lower(s) == [i \in 1..Len(s) |-> LowerChar(s[i])]

\* Python's a < b on str: lexicographic on code points, a proper prefix is smaller.
StrLess(a, b) ==
    \E k \in 1..(Len(b)) :
        /\ \A j \in 1..(k - 1) : j <= Len(a) /\ a[j] = b[j]
        /\ \/ Len(a) = k - 1
           \/ (Len(a) >= k /\ Ord(a[k]) < Ord(b[k]))

\* Python's `p in s` on str: p occurs in s as a contiguous substring.
Contains(s, p) ==
    \E k \in 0..(Len(s) - Len(p)) : \A j \in 1..Len(p) : s[k + j] = p[j]

\* str.strip(): leading and trailing blanks removed.
Strip(s) ==
    LET idx == {i \in 1..Len(s) : s[i] # " "}
    IN  IF idx = {} THEN <<>>
        ELSE LET lo == CHOOSE i \in idx : \A j \in idx : i <= j
                 hi == CHOOSE i \in idx : \A j \in idx : i >= j
             IN  SubSeq(s, lo, hi)

\* str.split(sep) for a one-character separator.
RECURSIVE Split(_, _)
Split(s, sep) ==
    LET idx == {i \in 1..Len(s) : s[i] = sep}
    IN  IF idx = {} THEN <<s>>
        ELSE LET k == CHOOSE i \in idx : \A j \in idx : i <= j
             IN  <<SubSeq(s, 1, k - 1)>> \o Split(SubSeq(s, k + 1, Len(s)), sep)

\* int(s) succeeds on a non-empty run of decimal digits (the model's strings
\* carry no sign, blank or underscore).
IntOk(s) == Len(s) > 0 /\ \A i \in 1..Len(s) : IsDigit(s[i])

RECURSIVE IntOf(_)
IntOf(s) ==
    IF Len(s) = 0 THEN 0
    ELSE 10 * IntOf(SubSeq(s, 1, Len(s) - 1)) + DigitVal(s[Len(s)])

None == <<"N", "o", "n", "e", "?">>

\* Python truthiness of an Optional[str]: None and "" are falsy.
Truthy(s) == s # None /\ s # <<>>

\* (x or "")
OrEmpty(s) == IF Truthy(s) THEN s ELSE <<>>

---------------------------------------------------------------------------
(* datetime helpers *)

\* utcoffset, in minutes, of the tzinfo attached to a datetime:
\*   "UTC" pytz.utc;
\*   "STD" the -03:00 instance that ZONA_LOCAL.localize / astimezone attach;
\*   "LMT" the zone object ZONA_LOCAL itself, which .replace(tzinfo=ZONA_LOCAL)
\*         attaches: it carries the zone's first entry, local mean time -03:54.
UtcOffsetMin(tz) ==
    CASE tz = "UTC" -> 0
      [] tz = "STD" -> 0 - 180
      [] tz = "LMT" -> 0 - 234

Dt(day, h, m, s, tz) == [w |-> ((day * 24 + h) * 60 + m) * 60 + s, tz |-> tz]

\* The instant of an aware datetime, seconds on the UTC scale.
Utc(dt) == dt.w - 60 * UtcOffsetMin(dt.tz)

DtLT(a, b) == Utc(a) < Utc(b)
DtLE(a, b) == Utc(a) <= Utc(b)

\* dt.astimezone(ZONA_LOCAL): same instant, -03:00 wall clock.
AsLocal(dt) == [w |-> Utc(dt) + 60 * UtcOffsetMin("STD"), tz |-> "STD"]

\* dt + timedelta(minutes=n): wall-clock arithmetic, tzinfo kept.
PlusMin(dt, n) == [dt EXCEPT !.w = dt.w + 60 * n]

\* int((b - a).total_seconds() // 60)
MinutesBetween(a, b) == (Utc(b) - Utc(a)) \div 60

DayOf(dt) == dt.w \div 86400
HourOf(dt) == (dt.w % 86400) \div 3600
MinuteOf(dt) == (dt.w % 3600) \div 60

\* dt.strftime("%Y-%m-%dT%H:%M")
FmtLocal(dt) == <<DayOf(dt), HourOf(dt), MinuteOf(dt)>>

\* dt.strftime("%Y-%m-%d")
FmtFecha(dt) == DayOf(dt)

\* datetime.strptime(s, "%Y-%m-%dT%H:%M").replace(tzinfo=ZONA_LOCAL)
ParseLocal(s) == Dt(s[1], s[2], s[3], 0, "LMT")

\* Order of two "%Y-%m-%dT%H:%M" strings.
StampLess(a, b) ==
    \/ a[1] < b[1]
    \/ a[1] = b[1] /\ a[2] < b[2]
    \/ a[1] = b[1] /\ a[2] = b[2] /\ a[3] < b[3]

---------------------------------------------------------------------------
(* Module constants of calendar_utils.py *)

SalaGrande  == <<"S","a","l","a"," ","g","r","a","n","d","e">>
SalaPiano   == <<"S","a","l","a"," ","p","i","a","n","o">>
SalaPicola  == <<"S","a","l","a"," ","p","i","c","o","l","a">>
SalaTerraza == <<"S","a","l","a"," ","t","e","r","r","a","z","a">>

\* list(CALENDAR_IDS.keys()): the dict's insertion order.
CALENDAR_IDS == <<SalaGrande, SalaPiano, SalaPicola, SalaTerraza>>

StrPiano   == <<"p","i","a","n","o">>
StrBateria == <<"b","a","t","e","r","i","a">>
StrFede    == <<"f","e","d","e">>

\* The entries of PROFES_VALIDOS and INSTRUMENTOS_VALIDOS written in the
\* model's alphabet.  The entries left out (accented spellings and names that
\* share no substring with the summaries below) match none of the model's
\* summaries, so leaving them out changes no result of _parse_desc.
PROFES_VALIDOS ==
    { <<"s","a","m">>, StrFede, <<"f","r","a","n","c","o">>,
      <<"f","r","a","n","c","o","u">>, <<"a","n","d","r","e","s">>,
      <<"t","o","m","a","s">> }

INSTRUMENTOS_VALIDOS ==
    { StrPiano, <<"g","u","i","t","a","r","r","a">>, <<"b","a","j","o">>,
      StrBateria }

\* salas_permitidas_por_instrumento (the accented "batería" is outside the
\* model's alphabet; the unaccented spelling takes the same branch).
salas_permitidas_por_instrumento(instr) ==
    IF ~Truthy(instr) THEN CALENDAR_IDS
    ELSE IF Lower(instr) = StrBateria THEN <<SalaPiano, SalaTerraza>>
    ELSE IF Lower(instr) = StrPiano
         THEN <<SalaPiano, SalaGrande, SalaPicola, SalaTerraza>>
    ELSE CALENDAR_IDS

---------------------------------------------------------------------------
(* _parse_desc *)

\* The canonical spelling _parse_desc returns for a matched profe entry
\* ("andres" and "tomas" map to accented spellings, kept distinct here by a
\* trailing mark).
CanonProfe(p) ==
    IF p = <<"a","n","d","r","e","s">> \/ p = <<"t","o","m","a","s">>
    THEN p \o <<"?">> ELSE p

CanonInstr(i) == IF i = StrBateria THEN i \o <<"?">> ELSE i

\* The loop over the vocabulary stops at the first entry found in the
\* lowered summary; the vocabulary is a Python set, whose iteration order is
\* not fixed, so every matching entry is a possible result.
ParseProfe(summary) ==
    LET s == Lower(summary)
        hits == {p \in PROFES_VALIDOS : Contains(s, p)}
    IN  IF hits = {} THEN {None} ELSE {CanonProfe(p) : p \in hits}

ParseInstr(summary) ==
    LET s == Lower(summary)
        hits == {i \in INSTRUMENTOS_VALIDOS : Contains(s, i)}
    IN  IF hits = {} THEN {None} ELSE {CanonInstr(i) : i \in hits}

---------------------------------------------------------------------------
(* fetch_eventos: one raw event *)

\* A raw start/end: {"dateTime": ...} (an RFC3339 instant, written with a Z
\* or with the -03:00 offset), {"date": ...} (all day), or a missing key.
RawDateTime(d, h, m, tz) == [kind |-> "dateTime", d |-> d, h |-> h, m |-> m, tz |-> tz]
RawDate(d) == [kind |-> "date", d |-> d, h |-> 0, m |-> 0, tz |-> "UTC"]
RawMissing == [kind |-> "missing", d |-> 0, h |-> 0, m |-> 0, tz |-> "UTC"]

\* "T" in dt_iso
HasT(r) == r.kind = "dateTime"

\* _to_local
to_local(r) ==
    IF HasT(r) THEN AsLocal(Dt(r.d, r.h, r.m, 0, r.tz))
    ELSE AsLocal(Dt(r.d, 0, 0, 0, "UTC"))

\* dt.replace(hour=23, minute=59, second=59, microsecond=0)
EndOfDay(dt) == [dt EXCEPT !.w = DayOf(dt) * 86400 + 23 * 3600 + 59 * 60 + 59]

\* The body of the try block raises (KeyError on ev["start"] / ev["end"]).
NormalizeRaises(ev) == ev.start.kind = "missing" \/ ev.end.kind = "missing"

Max2(a, b) == IF a >= b THEN a ELSE b

\* The dict appended for one raw event (the fields disponibilidad reads, and
\* id / duracion_min); instr and profe are the results of _parse_desc.
Normalize(ev, id, instr, profe) ==
    LET dt_start_local == to_local(ev.start)
        dt_end0        == to_local(ev.end)
        dt_end_local   == IF ~HasT(ev.start) /\ ~HasT(ev.end)
                          THEN EndOfDay(dt_start_local) ELSE dt_end0
    IN  [ id           |-> id,
          sala         |-> ev.sala,
          start_local  |-> FmtLocal(dt_start_local),
          end_local    |-> FmtLocal(dt_end_local),
          duracion_min |-> Max2(0, MinutesBetween(dt_start_local, dt_end_local)),
          instrumento  |-> instr,
          profe        |-> profe,
          fecha        |-> FmtFecha(dt_start_local) ]

---------------------------------------------------------------------------
(* _profes_presentes_por_dia *)

\* presentes.get(fecha, set()): the truthy 'profe' values of the events of fecha.
profes_presentes_por_dia(evs, fecha) ==
    { evs[i].profe : i \in {j \in 1..Len(evs) : evs[j].fecha = fecha /\ Truthy(evs[j].profe)} }

\* The date test with the lowering left out: the requested name is compared
\* as written.
ProfePresenteAsWritten(evs, fecha, profe) ==
    profe \in profes_presentes_por_dia(evs, fecha)

\* The date test that looks at every date's events.
ProfePresenteAnyDay(evs, fecha, profe) ==
    Lower(profe) \in { Lower(evs[k].profe) : k \in {j \in 1..Len(evs) : Truthy(evs[j].profe)} }

\* The test of the date loop: p = profe.lower() is among the lowered names
\* present on fecha.
ProfePresente(evs, fecha, profe) ==
    Lower(profe) \in { Lower(x) : x \in profes_presentes_por_dia(evs, fecha) }

---------------------------------------------------------------------------
(* _gaps *)

\* ws_h, ws_m = map(int, window_start.split(":")) followed by
\* dia_dt.replace(hour=ws_h, minute=ws_m, ...): ValueError unless there are
\* exactly two parts, both decimal, within the hour and minute ranges.
WindowParses(w) ==
    LET parts == Split(w, ":")
    IN  /\ Len(parts) = 2
        /\ IntOk(parts[1]) /\ IntOk(parts[2])
        /\ IntOf(parts[1]) <= 23 /\ IntOf(parts[2]) <= 59

WindowHour(w) == IntOf(Split(w, ":")[1])
WindowMinute(w) == IntOf(Split(w, ":")[2])

\* ZONA_LOCAL.localize(dia_dt.replace(hour=.., minute=..)): the -03:00 instance.
WindowAt(fecha, w) == Dt(fecha, WindowHour(w), WindowMinute(w), 0, "STD")

gaps_raises(window_start, window_end) ==
    ~WindowParses(window_start) \/ ~WindowParses(window_end)

\* list.sort(key=start_local) is stable: an element goes after the elements
\* whose key is not greater.
RECURSIVE SortByStart(_)
SortByStart(evs) ==
    IF Len(evs) <= 1 THEN evs
    ELSE LET init == SortByStart(SubSeq(evs, 1, Len(evs) - 1))
             e    == evs[Len(evs)]
             k    == Cardinality({i \in 1..Len(init) :
                                    ~StampLess(e.start_local, init[i].start_local)})
         IN  SubSeq(init, 1, k) \o <<e>> \o SubSeq(init, k + 1, Len(init))

EventsOfSala(en_dia, sala) == SelectSeq(en_dia, LAMBDA e : e.sala = sala)

\* The sweep: [cursor, gaps] after the events evs[i..].
RECURSIVE GapSweep(_, _, _, _)
GapSweep(evs, i, cursor, gaps) ==
    IF i > Len(evs) THEN [cursor |-> cursor, gaps |-> gaps]
    ELSE LET s == ParseLocal(evs[i].start_local)
             f == ParseLocal(evs[i].end_local)
         IN  IF DtLE(f, cursor) THEN GapSweep(evs, i + 1, cursor, gaps)
             ELSE GapSweep(evs, i + 1,
                           IF DtLT(cursor, f) THEN f ELSE cursor,
                           IF DtLT(cursor, s) THEN Append(gaps, <<cursor, s>>) ELSE gaps)

\* _gaps, for a window that parses: the list of (start, end) datetimes.
gaps_of(en_dia, fecha, sala, window_start, window_end) ==
    LET day_start == WindowAt(fecha, window_start)
        day_end   == WindowAt(fecha, window_end)
        evs       == SortByStart(EventsOfSala(en_dia, sala))
        swept     == GapSweep(evs, 1, day_start, <<>>)
    IN  IF DtLT(swept.cursor, day_end)
        THEN Append(swept.gaps, <<swept.cursor, day_end>>)
        ELSE swept.gaps

---------------------------------------------------------------------------
(* disponibilidad *)

\* assert window_start < window_end: a comparison of the two str arguments.
WindowAssertHolds(window_start, window_end) == StrLess(window_start, window_end)

\* fechas: range(total_dias) is empty when end_date is before start_date.
FechasOf(start_date, end_date) ==
    [i \in 1..Max2(0, end_date - start_date + 1) |-> start_date + i - 1]

PREFER == <<SalaPiano, SalaGrande, SalaPicola, SalaTerraza>>

PreferIndex(s) ==
    IF \E i \in 1..Len(PREFER) : PREFER[i] = s
    THEN (CHOOSE i \in 1..Len(PREFER) : PREFER[i] = s) - 1
    ELSE 99

\* salas.sort(key=prefer index), stable.
RECURSIVE SortByPrefer(_)
SortByPrefer(salas) ==
    IF Len(salas) <= 1 THEN salas
    ELSE LET init == SortByPrefer(SubSeq(salas, 1, Len(salas) - 1))
             s    == salas[Len(salas)]
             k    == Cardinality({i \in 1..Len(init) :
                                    PreferIndex(init[i]) <= PreferIndex(s)})
         IN  SubSeq(init, 1, k) \o <<s>> \o SubSeq(init, k + 1, Len(init))

\* The room list: the stripped parts of salas_csv when it is truthy, else the
\* instrument's rooms; reordered when the instrument is piano.
SalasOf(salas_csv, instrumento) ==
    LET base == IF Truthy(salas_csv)
                THEN LET parts == Split(salas_csv, ",")
                     IN  [i \in 1..Len(parts) |-> Strip(parts[i])]
                ELSE LET perm == salas_permitidas_por_instrumento(instrumento)
                     IN  [i \in 1..Len(perm) |-> Strip(perm[i])]
    IN  IF Lower(OrEmpty(instrumento)) = StrPiano THEN SortByPrefer(base) ELSE base

\* duraciones = [dur_min] if dur_min in {30,45,60} else [30,45,60]
DuracionesOf(dur_min) ==
    IF dur_min # <<>> /\ dur_min[1] \in {30, 45, 60} THEN dur_min ELSE <<30, 45, 60>>

\* ev_por_fecha.get(fecha, [])
EnDia(evs, fecha) == SelectSeq(evs, LAMBDA e : e.fecha = fecha)

Slot(fecha, sala, instrumento, profe, s, f, d, tipo) ==
    [ fecha |-> fecha, sala |-> sala, instrumento |-> instrumento, profe |-> profe,
      start_local |-> FmtLocal(s), end_local |-> FmtLocal(f), dur_min |-> d,
      tipo |-> tipo ]

\* The slots appended for one gap and one duration d <= gap_min.
SlotsOfDur(g, d, fecha, sala, instrumento, profe) ==
    LET g_start == g[1]
        g_end   == g[2]
        s2      == PlusMin(g_end, 0 - d)
    IN  <<Slot(fecha, sala, instrumento, profe, g_start, PlusMin(g_start, d), d,
               "inicio_hueco")>>
        \o (IF DtLE(g_start, s2)
            THEN <<Slot(fecha, sala, instrumento, profe, s2, g_end, d, "encastre_fin")>>
            ELSE <<>>)

RECURSIVE SlotsOfGapFrom(_, _, _, _, _, _, _)
SlotsOfGapFrom(g, duraciones, k, fecha, sala, instrumento, profe) ==
    IF k > Len(duraciones) THEN <<>>
    ELSE (IF duraciones[k] > MinutesBetween(g[1], g[2]) THEN <<>>
          ELSE SlotsOfDur(g, duraciones[k], fecha, sala, instrumento, profe))
         \o SlotsOfGapFrom(g, duraciones, k + 1, fecha, sala, instrumento, profe)

\* The body of `for g_start, g_end in gaps`.
SlotsOfGap(g, duraciones, fecha, sala, instrumento, profe) ==
    IF MinutesBetween(g[1], g[2]) < 30 THEN <<>>
    ELSE SlotsOfGapFrom(g, duraciones, 1, fecha, sala, instrumento, profe)

RECURSIVE SlotsOfGaps(_, _, _, _, _, _, _)
SlotsOfGaps(gs, k, duraciones, fecha, sala, instrumento, profe) ==
    IF k > Len(gs) THEN <<>>
    ELSE SlotsOfGap(gs[k], duraciones, fecha, sala, instrumento, profe)
         \o SlotsOfGaps(gs, k + 1, duraciones, fecha, sala, instrumento, profe)

\* Dict comprehension keyed on (sala, start, end, profe or "", instrumento or ""):
\* a key keeps the position of its first entry and the value of its last.
SlotKey(r) == <<r.sala, r.start_local, r.end_local, OrEmpty(r.profe), OrEmpty(r.instrumento)>>

Uniq(rs) ==
    LET firsts == {i \in 1..Len(rs) : \A j \in 1..(i - 1) : SlotKey(rs[j]) # SlotKey(rs[i])}
        last(i) == CHOOSE j \in i..Len(rs) :
                      /\ SlotKey(rs[j]) = SlotKey(rs[i])
                      /\ \A l \in (j + 1)..Len(rs) : SlotKey(rs[l]) # SlotKey(rs[i])
        nth(n) == CHOOSE i \in firsts : Cardinality({j \in firsts : j < i}) = n - 1
    IN  [n \in 1..Cardinality(firsts) |-> rs[last(nth(n))]]

\* The sort key (fecha, sala, start_local), compared as a Python tuple.
SlotKeyLess(a, b) ==
    \/ a.fecha < b.fecha
    \/ a.fecha = b.fecha /\ StrLess(a.sala, b.sala)
    \/ a.fecha = b.fecha /\ a.sala = b.sala /\ StampLess(a.start_local, b.start_local)

\* sorted(..., key=...) is stable.
RECURSIVE Ordenados(_)
Ordenados(rs) ==
    IF Len(rs) <= 1 THEN rs
    ELSE LET init == Ordenados(SubSeq(rs, 1, Len(rs) - 1))
             r    == rs[Len(rs)]
             k    == Cardinality({i \in 1..Len(init) : ~SlotKeyLess(r, init[i])})
         IN  SubSeq(init, 1, k) \o <<r>> \o SubSeq(init, k + 1, Len(init))

---------------------------------------------------------------------------
(* Inputs *)

\* The largest number of raw events the provider returns in one fetch.
MaxEvents == 2

SumClase     == <<"c","l","a","s","e">>
SumPianoFede == <<"P","i","a","n","o"," ","F","e","d","e">>
SumFedeBat   == <<"f","e","d","e"," ","b","a","t","e","r","i","a">>

RawEvent(sala, start, end, summary) ==
    [sala |-> sala, start |-> start, end |-> end, summary |-> summary]

\* Raw events of the calendars of Sala piano and Sala grande on days 1 and 2:
\* inside the default 14:00-21:00 window, before it, after it, ending shortly
\* before its end, all day, given with a Z, one without a start, one whose
\* end equals its start, and one that runs from day 1 into day 2.
RawPool ==
    { RawEvent(SalaPiano, RawDateTime(1, 14, 20, "STD"), RawDateTime(1, 15, 20, "STD"), SumClase),
      RawEvent(SalaPiano, RawDateTime(1, 15, 0, "STD"),  RawDateTime(1, 16, 0, "STD"),  SumPianoFede),
      RawEvent(SalaPiano, RawDateTime(1, 22, 0, "STD"),  RawDateTime(1, 23, 0, "STD"),  SumClase),
      RawEvent(SalaPiano, RawDateTime(1, 19, 0, "STD"),  RawDateTime(1, 20, 0, "STD"), SumClase),
      RawEvent(SalaPiano, RawDateTime(1, 13, 0, "STD"),  RawDateTime(1, 13, 30, "STD"), SumClase),
      RawEvent(SalaPiano, RawDate(1), RawDate(2), SumClase),
      RawEvent(SalaPiano, RawDate(2), RawDate(3), SumClase),
      RawEvent(SalaPiano, RawMissing, RawDateTime(1, 16, 0, "STD"), SumClase),
      RawEvent(SalaPiano, RawDateTime(2, 16, 0, "STD"),  RawDateTime(2, 16, 0, "STD"),  SumClase),
      RawEvent(SalaPiano, RawDateTime(1, 23, 0, "STD"),  RawDateTime(2, 15, 0, "STD"),  SumClase),
      RawEvent(SalaGrande, RawDateTime(1, 15, 0, "STD"), RawDateTime(1, 16, 0, "STD"), SumFedeBat),
      RawEvent(SalaGrande, RawDateTime(2, 18, 0, "UTC"), RawDateTime(2, 19, 0, "UTC"), SumPianoFede),
      RawEvent(SalaGrande, RawDateTime(2, 15, 0, "STD"), RawDateTime(2, 16, 0, "STD"), SumClase) }

SalaIndex(s) == CHOOSE i \in 1..Len(CALENDAR_IDS) : CALENDAR_IDS[i] = s

\* The provider's answer as fetch_eventos walks it: calendar by calendar in
\* the order of CALENDAR_IDS, each calendar's items ordered by start time
\* (orderBy="startTime"); an item without a start has no place in that order.
ProviderOrder(b) ==
    \A i \in 1..(Len(b) - 1) :
        \/ SalaIndex(b[i].sala) < SalaIndex(b[i + 1].sala)
        \/ /\ b[i].sala = b[i + 1].sala
           /\ \/ NormalizeRaises(b[i]) \/ NormalizeRaises(b[i + 1])
              \/ DtLE(to_local(b[i].start), to_local(b[i + 1].start))

Batches ==
    { b \in UNION { [1..n -> RawPool] : n \in 0..MaxEvents } : ProviderOrder(b) }

W1400 == <<"1","4",":","0","0">>
W2100 == <<"2","1",":","0","0">>
W1500 == <<"1","5",":","0","0">>
W1600 == <<"1","6",":","0","0">>
W900  == <<"9",":","0","0">>
W1x00 == <<"1","x",":","0","0">>

\* (window_start, window_end): the default, a one-hour window, an inverted
\* and an empty one, and pairs with a bound that is not HH:MM.
DefaultWindow == <<W1400, W2100>>
Windows ==
    { DefaultWindow, <<W1500, W1600>>, <<W2100, W1400>>, <<W1400, W1400>>,
      <<W1400, W900>>, <<W900, W1400>>, <<W1x00, W2100>> }

ProfFede == <<"F","e","d","e">>
CsvPianoRoja ==
    <<"S","a","l","a"," ","p","i","a","n","o",","," ","S","a","l","a"," ","r","o","j","a">>

DateRanges == { <<1, 1>>, <<1, 2>>, <<2, 1>> }

Request(dates, instrumento, profe, dur_min, salas_csv, window) ==
    [ start_date |-> dates[1], end_date |-> dates[2], instrumento |-> instrumento,
      profe |-> profe, dur_min |-> dur_min, salas_csv |-> salas_csv,
      window_start |-> window[1], window_end |-> window[2] ]

\* The calls of disponibilidad: every date range, teacher and duration with
\* the default window and rooms; every window; every room selection.
Requests ==
    { Request(dr, None, pf, du, None, DefaultWindow) :
        dr \in DateRanges, pf \in {None, ProfFede}, du \in {<<>>, <<40>>, <<60>>} }
    \cup
    { Request(dr, None, pf, <<>>, None, w) :
        dr \in DateRanges, pf \in {None, ProfFede}, w \in Windows }
    \cup
    { Request(<<1, 2>>, ins, pf, <<45>>, csv, DefaultWindow) :
        ins \in {None, StrPiano, StrBateria}, pf \in {None, ProfFede},
        csv \in {None, CsvPianoRoja} }

NoRequest == Request(<<0, 0>>, None, None, <<>>, None, <<<<>>, <<>>>>)

---------------------------------------------------------------------------
(* State *)

VARIABLES
    raw,         \* the provider's items, in the order fetch_eventos walks them
    i,           \* fetch_eventos: index of the next raw event
    eventos,     \* eventos_json, then the argument `eventos` of disponibilidad
    skipped,     \* indices of the raw events the except branch skipped
    pc,          \* "fetch", "fetched", "assert", "prepare", "loop", "done", "raised"
    req,         \* the arguments of the call of disponibilidad
    fechas, salas, duraciones,   \* locals of disponibilidad
    fi,          \* index in fechas of the next date of the loop
    resultados,  \* the list `resultados`
    gaplog,      \* the calls of _gaps made so far: [fecha, sala, gaps]
    ret,         \* the returned list
    err          \* the exception that ended the call, or "none"

vars == << raw, i, eventos, skipped, pc, req, fechas, salas, duraciones, fi,
           resultados, gaplog, ret, err >>

callVars == << req, fechas, salas, duraciones, fi, resultados, gaplog, ret, err >>

Init ==
    /\ raw \in Batches
    /\ i = 1
    /\ eventos = <<>>
    /\ skipped = {}
    /\ pc = "fetch"
    /\ req = NoRequest
    /\ fechas = <<>>
    /\ salas = <<>>
    /\ duraciones = <<>>
    /\ fi = 1
    /\ resultados = <<>>
    /\ gaplog = <<>>
    /\ ret = <<>>
    /\ err = "none"

---------------------------------------------------------------------------
(* fetch_eventos *)

\* One iteration of `for ev in items` whose try block completes.
FetchEvent ==
    /\ pc = "fetch" /\ i <= Len(raw)
    /\ ~NormalizeRaises(raw[i])
    /\ \E instr \in ParseInstr(raw[i].summary), profe \in ParseProfe(raw[i].summary) :
          eventos' = Append(eventos, Normalize(raw[i], i, instr, profe))
    /\ i' = i + 1
    /\ UNCHANGED << raw, skipped, pc, callVars >>

\* `continue` in the except branch: the loop goes on with the next item.
SkipAborts(k) == Len(raw) + 1

SkipContinues(k) == k + 1

\* One iteration that raises: the except branch prints and continues.
FetchSkip ==
    /\ pc = "fetch" /\ i <= Len(raw)
    /\ NormalizeRaises(raw[i])
    /\ skipped' = skipped \cup {i}
    /\ i' = SkipContinues(i)
    /\ UNCHANGED << raw, eventos, pc, callVars >>

\* return eventos_json
FetchReturn ==
    /\ pc = "fetch" /\ i > Len(raw)
    /\ pc' = "fetched"
    /\ UNCHANGED << raw, i, eventos, skipped, callVars >>

---------------------------------------------------------------------------
(* disponibilidad *)

\* disponibilidad(eventos, ...) is called on the fetched events.
Call ==
    /\ pc = "fetched"
    /\ \E r \in Requests : req' = r
    /\ pc' = "assert"
    /\ UNCHANGED << raw, i, eventos, skipped, fechas, salas, duraciones, fi,
                    resultados, gaplog, ret, err >>

\* assert window_start < window_end
AssertWindow ==
    /\ pc = "assert"
    /\ IF WindowAssertHolds(req.window_start, req.window_end)
       THEN pc' = "prepare" /\ err' = err
       ELSE pc' = "raised" /\ err' = "AssertionError"
    /\ UNCHANGED << raw, i, eventos, skipped, req, fechas, salas, duraciones, fi,
                    resultados, gaplog, ret >>

\* presentes, fechas, salas, duraciones, ev_por_fecha.
Prepare ==
    /\ pc = "prepare"
    /\ fechas' = FechasOf(req.start_date, req.end_date)
    /\ salas' = SalasOf(req.salas_csv, req.instrumento)
    /\ duraciones' = DuracionesOf(req.dur_min)
    /\ fi' = 1
    /\ pc' = "loop"
    /\ UNCHANGED << raw, i, eventos, skipped, req, resultados, gaplog, ret, err >>

\* `continue`: the requested profe is not present on the date.
DaySkips ==
    Truthy(req.profe) /\ ~ProfePresente(eventos, fechas[fi], req.profe)

DaySkip ==
    /\ pc = "loop" /\ fi <= Len(fechas)
    /\ DaySkips
    /\ fi' = fi + 1
    /\ UNCHANGED << raw, i, eventos, skipped, pc, req, fechas, salas, duraciones,
                    resultados, gaplog, ret, err >>

\* The first call of _gaps for the date raises ValueError on the window.
DayRaise ==
    /\ pc = "loop" /\ fi <= Len(fechas)
    /\ ~DaySkips
    /\ gaps_raises(req.window_start, req.window_end)
    /\ pc' = "raised"
    /\ err' = "ValueError"
    /\ UNCHANGED << raw, i, eventos, skipped, req, fechas, salas, duraciones, fi,
                    resultados, gaplog, ret >>

\* The slots of one date: `for sala in salas`, the rooms from index k on.
RECURSIVE DaySlotsFrom(_, _, _, _)
DaySlotsFrom(evs, r, ss, k) ==
    IF k > Len(ss) THEN <<>>
    ELSE SlotsOfGaps(gaps_of(EnDia(evs, r.fecha), r.fecha, ss[k], r.window_start, r.window_end),
                     1, r.duraciones, r.fecha, ss[k], r.instrumento, r.profe)
         \o DaySlotsFrom(evs, r, ss, k + 1)

DayGaps ==
    /\ pc = "loop" /\ fi <= Len(fechas)
    /\ ~DaySkips
    /\ ~gaps_raises(req.window_start, req.window_end)
    /\ LET fecha == fechas[fi]
           r == [ fecha |-> fecha, window_start |-> req.window_start,
                  window_end |-> req.window_end, duraciones |-> duraciones,
                  instrumento |-> req.instrumento, profe |-> req.profe ]
       IN  /\ resultados' = resultados \o DaySlotsFrom(eventos, r, salas, 1)
           /\ gaplog' = gaplog \o
                 [k \in 1..Len(salas) |->
                    [ fecha |-> fecha, sala |-> salas[k],
                      gaps |-> gaps_of(EnDia(eventos, fecha), fecha, salas[k],
                                       req.window_start, req.window_end) ]]
    /\ fi' = fi + 1
    /\ UNCHANGED << raw, i, eventos, skipped, pc, req, fechas, salas, duraciones,
                    ret, err >>

\* Deduplicate, sort, return.
Finish ==
    /\ pc = "loop" /\ fi > Len(fechas)
    /\ ret' = Ordenados(Uniq(resultados))
    /\ pc' = "done"
    /\ UNCHANGED << raw, i, eventos, skipped, req, fechas, salas, duraciones, fi,
                    resultados, gaplog, err >>

Next ==
    \/ FetchEvent
    \/ FetchSkip
    \/ FetchReturn
    \/ Call
    \/ AssertWindow
    \/ Prepare
    \/ DaySkip
    \/ DayRaise
    \/ DayGaps
    \/ Finish

Spec == Init /\ [][Next]_vars

---------------------------------------------------------------------------
(* Vocabulary of the properties *)

Range(seq) == { seq[k] : k \in 1..Len(seq) }

\* A "%Y-%m-%dT%H:%M" string read as local wall-clock minutes.
StampMin(s) == (s[1] * 24 + s[2]) * 60 + s[3]

\* The wall-clock reading of a datetime, in minutes (what strftime prints).
WallMin(dt) == dt.w \div 60

\* A half-open interval <<a, b>> holds the instant t.
Holds(iv, t) == iv[1] <= t /\ t < iv[2]

EventWall(e) == <<StampMin(e.start_local), StampMin(e.end_local)>>
GapWall(g) == <<WallMin(g[1]), WallMin(g[2])>>

\* HH:MM: two digits, a colon, two digits, naming a time of day.
WellFormedHHMM(w) ==
    /\ Len(w) = 5
    /\ IsDigit(w[1]) /\ IsDigit(w[2]) /\ w[3] = ":" /\ IsDigit(w[4]) /\ IsDigit(w[5])
    /\ IntOf(SubSeq(w, 1, 2)) <= 23 /\ IntOf(SubSeq(w, 4, 5)) <= 59

TimeOfDay(w) == 60 * IntOf(SubSeq(w, 1, 2)) + IntOf(SubSeq(w, 4, 5))

\* The window of the call is valid: both bounds well formed, start before end.
ValidWindow ==
    /\ WellFormedHHMM(req.window_start) /\ WellFormedHHMM(req.window_end)
    /\ TimeOfDay(req.window_start) < TimeOfDay(req.window_end)

\* The working window of a date, in local wall-clock minutes.
WindowWall(fecha) ==
    << fecha * 1440 + TimeOfDay(req.window_start),
       fecha * 1440 + TimeOfDay(req.window_end) >>

Called == pc \in {"assert", "prepare", "loop", "done", "raised"}

\* The events _gaps was given for one call: those of the date and the room.
EventsOfCall(c) == { e \in Range(eventos) : e.fecha = c.fecha /\ e.sala = c.sala }

---------------------------------------------------------------------------
(* C1 *)

\* The instants at which the cover of a window by gaps and events can change.
CutPoints(c) ==
    LET win == WindowWall(c.fecha)
        all == {win[1]}
               \cup UNION { {EventWall(e)[1], EventWall(e)[2]} : e \in EventsOfCall(c) }
               \cup UNION { {GapWall(g)[1], GapWall(g)[2]} : g \in Range(c.gaps) }
    IN  { t \in all : Holds(win, t) }

GapPartition(c) ==
    LET win == WindowWall(c.fecha)
    IN  /\ \A k \in 1..Len(c.gaps) :
              /\ GapWall(c.gaps[k])[1] < GapWall(c.gaps[k])[2]
              /\ win[1] <= GapWall(c.gaps[k])[1]
              /\ GapWall(c.gaps[k])[2] <= win[2]
        /\ \A t \in CutPoints(c) :
              LET inGaps == Cardinality({k \in 1..Len(c.gaps) : Holds(GapWall(c.gaps[k]), t)})
                  busy   == \E e \in EventsOfCall(c) : Holds(EventWall(e), t)
              IN  inGaps + (IF busy THEN 1 ELSE 0) = 1

\* C1: for every call of _gaps with a valid window, the returned gaps and the
\* busy time of the room's events cover the window exactly once: the gaps are
\* disjoint, lie inside the window, meet no event, and hold every free
\* instant of the window.
C1_GapPartition ==
    ValidWindow => \A k \in 1..Len(gaplog) : GapPartition(gaplog[k])

---------------------------------------------------------------------------
(* C2 *)

\* C2: every returned slot lies inside the working window of its date.
C2_SlotsInsideWindow ==
    (pc = "done" /\ ValidWindow) =>
        \A r \in Range(ret) :
            /\ WindowWall(r.fecha)[1] <= StampMin(r.start_local)
            /\ StampMin(r.end_local) <= WindowWall(r.fecha)[2]

---------------------------------------------------------------------------
(* C3 *)

\* C3: every returned slot lasts dur_min minutes of wall-clock time and lies
\* inside one gap that _gaps returned for its room and date, the gap read on
\* the wall clock of the events' start_local / end_local.
C3_SlotInsideOneGap ==
    (pc = "done" /\ ValidWindow) =>
        \A r \in Range(ret) :
            /\ StampMin(r.end_local) - StampMin(r.start_local) = r.dur_min
            /\ \E k \in 1..Len(gaplog) :
                  /\ gaplog[k].fecha = r.fecha /\ gaplog[k].sala = r.sala
                  /\ \E g \in Range(gaplog[k].gaps) :
                        /\ GapWall(g)[1] <= StampMin(r.start_local)
                        /\ StampMin(r.end_local) <= GapWall(g)[2]

---------------------------------------------------------------------------
(* C4 *)

\* The returned entries for a room and a wall-clock interval.
Entries(sala, a, b) ==
    { k \in 1..Len(ret) :
        /\ ret[k].sala = sala
        /\ StampMin(ret[k].start_local) = a /\ StampMin(ret[k].end_local) = b }

\* C4: for every gap of at least 30 minutes of a processed room and date and
\* every candidate duration d that fits, the output holds the slot at the
\* gap's start and the slot at its end: two entries when d is shorter than
\* the gap, one entry when d is the gap's length.
C4_BothPlacements ==
    (pc = "done" /\ ValidWindow) =>
        \A k \in 1..Len(gaplog) : \A g \in Range(gaplog[k].gaps) :
            LET a == GapWall(g)[1]
                b == GapWall(g)[2]
            IN  \A d \in Range(duraciones) :
                   (b - a >= 30 /\ d <= b - a) =>
                      /\ Entries(gaplog[k].sala, a, a + d) # {}
                      /\ Entries(gaplog[k].sala, b - d, b) # {}
                      /\ d = b - a => Cardinality(Entries(gaplog[k].sala, a, b)) = 1

---------------------------------------------------------------------------
(* C5 *)

\* Some event of the date, in any room, has the requested teacher as its
\* parsed profe, letter case aside.
TeacherOnDate(fecha) ==
    \E e \in Range(eventos) :
        e.fecha = fecha /\ Truthy(e.profe) /\ Lower(e.profe) = Lower(req.profe)

\* The slots of a date when no teacher is asked for, deduplicated and
\* relabelled with the requested teacher.
SlotsIgnoringTeacher(fecha) ==
    LET r == [ fecha |-> fecha, window_start |-> req.window_start,
               window_end |-> req.window_end, duraciones |-> duraciones,
               instrumento |-> req.instrumento, profe |-> None ]
    IN  { [s EXCEPT !.profe = req.profe] :
             s \in Range(Uniq(DaySlotsFrom(eventos, r, salas, 1))) }

\* C5: with a teacher requested, no slot is returned for a date on which no
\* event has that teacher (case-insensitively), and on a date where the
\* teacher is present the slots are those offered without a teacher: the
\* teacher's own busy time removes none.
C5_TeacherGating ==
    (pc = "done" /\ Truthy(req.profe)) =>
        /\ \A r \in Range(ret) : TeacherOnDate(r.fecha)
        /\ \A f \in Range(fechas) :
              TeacherOnDate(f) =>
                 { r \in Range(ret) : r.fecha = f } = SlotsIgnoringTeacher(f)

\* A date of the range was gated out, and on another a slot is offered while
\* the requested teacher is teaching in another room.
C5_Witness ==
    /\ pc = "done" /\ Truthy(req.profe)
    /\ \E f \in Range(fechas) : ~TeacherOnDate(f)
    /\ \E r \in Range(ret), e \in Range(eventos) :
          /\ e.fecha = r.fecha /\ Truthy(e.profe) /\ Lower(e.profe) = Lower(req.profe)
          /\ e.sala # r.sala
          /\ StampMin(r.start_local) < StampMin(e.end_local)
          /\ StampMin(e.start_local) < StampMin(r.end_local)

---------------------------------------------------------------------------
(* C6 *)

AllDay(ev) == ev.start.kind = "date" /\ ev.end.kind = "date"

\* C6: an all-day raw event for date D in room R is normalized with fecha D
\* and a busy interval over the whole working window of D, and a call that
\* covers D and R returns no slot for R on D.
C6_AllDayBlocksRoom ==
    \A k \in 1..Len(raw) : \A e \in Range(eventos) :
        (AllDay(raw[k]) /\ e.id = k) =>
            /\ e.fecha = raw[k].start.d
            /\ (Called /\ ValidWindow) =>
                  /\ EventWall(e)[1] <= WindowWall(raw[k].start.d)[1]
                  /\ WindowWall(raw[k].start.d)[2] <= EventWall(e)[2]
            /\ (pc = "done" /\ ValidWindow) =>
                  \A r \in Range(ret) : ~(r.sala = raw[k].sala /\ r.fecha = raw[k].start.d)

---------------------------------------------------------------------------
(* C7 *)

ExplicitInvalidDuration == req.dur_min # <<>> /\ req.dur_min[1] \notin {30, 45, 60}

\* C7: a call with an explicit duration outside {30, 45, 60} (its window and
\* date range being valid) is rejected before any gap is computed and returns
\* nothing.
C7_InvalidDurationRejected ==
    (Called /\ ExplicitInvalidDuration /\ ValidWindow /\ req.start_date <= req.end_date)
        => (gaplog = <<>> /\ pc # "done")

---------------------------------------------------------------------------
(* C8 *)

\* C8: a call with end_date before start_date (its window being valid) is
\* rejected: it does not return normally.
C8_InvertedRangeRejected ==
    (Called /\ ValidWindow /\ req.end_date < req.start_date) => pc # "done"

---------------------------------------------------------------------------
(* C9 *)

\* C9: the call is rejected before any work exactly when the window is
\* invalid: no call with an invalid window gets past the check, and no call
\* with a valid window fails.
C9_WindowRejectedIffInvalid ==
    /\ pc \in {"prepare", "loop", "done"} => ValidWindow
    /\ pc = "raised" => ~ValidWindow

---------------------------------------------------------------------------
(* C10 *)

KnownSalas == Range(CALENDAR_IDS)

\* C10: no returned slot names a room outside the known rooms, and the known
\* rooms of the list are processed on every date that is processed.
C10_UnknownRoomNeverOffered ==
    pc = "done" =>
        /\ \A r \in Range(ret) : r.sala \in KnownSalas
        /\ \A k \in 1..Len(gaplog) : \A s \in Range(salas) \cap KnownSalas :
              \E j \in 1..Len(gaplog) :
                  gaplog[j].fecha = gaplog[k].fecha /\ gaplog[j].sala = s

---------------------------------------------------------------------------
(* C11 *)

\* C11: every normalized event appended by fetch_eventos has its start_local
\* strictly before its end_local.
C11_StartBeforeEnd ==
    \A e \in Range(eventos) : StampMin(e.start_local) < StampMin(e.end_local)

---------------------------------------------------------------------------
(* C12 *)

\* A raw event that has both its start and its end.
WellFormedRaw(ev) == ev.start.kind # "missing" /\ ev.end.kind # "missing"

\* The indices of the well-formed raw events among the first n of the batch.
WellFormedUpTo(n) == { k \in 1..n : WellFormedRaw(raw[k]) }

\* What one well-formed raw event may normalize to.
NormalizationsOf(k) ==
    { Normalize(raw[k], k, instr, profe) :
        instr \in ParseInstr(raw[k].summary), profe \in ParseProfe(raw[k].summary) }

\* C12: the list fetch_eventos returns is the normalization of exactly the
\* well-formed raw events of the batch, in the batch's order; a raw event
\* that fails is skipped and never ends the batch.
C12_SkipAndContinue ==
    pc # "fetch" =>
        /\ Len(eventos) = Cardinality(WellFormedUpTo(Len(raw)))
        /\ \A k \in 1..Len(eventos) :
              /\ eventos[k].id \in WellFormedUpTo(Len(raw))
              /\ eventos[k] \in NormalizationsOf(eventos[k].id)
        /\ \A j, k \in 1..Len(eventos) : j < k => eventos[j].id < eventos[k].id
        /\ skipped = (1..Len(raw)) \ WellFormedUpTo(Len(raw))

\* A batch whose first raw event fails and whose later one is returned.
C12_Witness ==
    /\ pc = "fetched"
    /\ 1 \in skipped
    /\ \E e \in Range(eventos) : e.id = 2

---------------------------------------------------------------------------
(* C13 *)

\* Two half-open wall-clock intervals share an instant.
Overlap(a, b) == a[1] < a[2] /\ b[1] < b[2] /\ a[1] < b[2] /\ b[1] < a[2]

\* C13: no returned slot overlaps an event of its own room, whatever the
\* event's fecha.
C13_NoSlotOverlapsEvent ==
    (pc = "done" /\ ValidWindow) =>
        \A r \in Range(ret) : \A e \in Range(eventos) :
            e.sala = r.sala => ~Overlap(EventWall(r), EventWall(e))

\* The overnight case of C13 on its own: events that start before the slot's
\* date and end on it.
C13_OvernightOnly ==
    (pc = "done" /\ ValidWindow) =>
        \A r \in Range(ret) : \A e \in Range(eventos) :
            (e.sala = r.sala /\ e.fecha < r.fecha /\ e.end_local[1] = r.fecha)
                => ~Overlap(EventWall(r), EventWall(e))

=============================================================================
